---- MODULE Spec2Model ----
(***************************************************************************)
(* A model of the weather-and-time agent.                                  *)
(*                                                                         *)
(*   Spec     the two tool functions of multi_tool_agent/agent.py,         *)
(*            get_weather and get_current_time, against every upstream     *)
(*            HTTP outcome and every shape of JSON payload;                *)
(*   CliSpec  the command line of multi_tool_agent/cli.py: parse_args,     *)
(*            setup_logging, create_agent and main with its REPL.          *)
(*                                                                         *)
(* Python values are modelled by what the code does with them: a JSON      *)
(* payload is the tree of the positions the code subscripts, each holding  *)
(* the JSON type found there; a subscript raises KeyError, IndexError or   *)
(* TypeError as Python does; a message is the sequence of its fragments.   *)
(***************************************************************************)
EXTENDS Integers, Sequences, FiniteSets, TLC

VARIABLES
    \* ---- agent.py ----
    environ,          \* os.environ: the two API keys
    fn,               \* the tool function being invoked, or "none"
    city,             \* its argument
    pc,               \* "idle", "weather_req", "geocode_req", "timezone_req", "done"
    http_log,         \* the HTTP requests issued by this invocation, in order
    http_responses,   \* the responses received, aligned with http_log
    returned,         \* << >> or <<envelope>>: the value the function returned
    raised,           \* "" or the name of the exception that escaped the function
    calls,            \* invocations started so far
    \* ---- cli.py ----
    argv,             \* the command line
    config_default,   \* LOG_LEVEL of the module-level config object
    config_file,      \* LOG_LEVEL of the file named by --config
    main_config,      \* main's local variable config: "unbound", "file"
    registry,         \* the tool registry: a sequence of entries in registration order
    agent_created,    \* whether create_agent has run
    agent_tools,      \* the Tools added to the agent, in order
    logging_level,    \* the level handed to logging.basicConfig, -1 before it
    cli_pc,           \* "start", "repl", "exited", "crashed"
    stdout,           \* the lines printed, each a sequence of fragments
    runs,             \* the tasks handed to agent.run, in order
    last_event,       \* the last REPL iteration: what was read and how the run ended
    lines_read        \* REPL iterations so far

agent_vars == <<environ, fn, city, pc, http_log, http_responses,
                returned, raised, calls>>
cli_vars == <<argv, config_default, config_file, main_config, registry, agent_created,
              agent_tools, logging_level, cli_pc, stdout, runs, last_event, lines_read>>
vars == <<agent_vars, cli_vars>>

\* ---------------------------------------------------------------- bounds
MaxCalls == 2
MaxLines == 2
MaxTools == 2

\* ------------------------------------------------------- Python semantics
Types == {"obj", "list", "str", "num", "bool", "null"}
Absent == "absent"

\* container[key]: key is a "name" (a string) or an "index" (the integer 0);
\* present says whether the container holds it.
GetItem(t, key, present) ==
    CASE t = "obj"  -> IF key = "name" /\ present THEN "ok" ELSE "KeyError"
      [] t = "list" -> IF key = "index"
                       THEN (IF present THEN "ok" ELSE "IndexError")
                       ELSE "TypeError"
      [] t = "str"  -> IF key = "index"
                       THEN (IF present THEN "ok" ELSE "IndexError")
                       ELSE "TypeError"
      [] OTHER      -> "TypeError"

\* (temp_c * 9/5) + 32 followed by the format spec .1f
Arith(t) == IF t \in {"num", "bool"} THEN "ok" ELSE "TypeError"

\* The first step of a straight-line block that raises, or "ok".
RECURSIVE FirstError(_)
FirstError(steps) ==
    IF steps = << >> THEN "ok"
    ELSE IF Head(steps) # "ok" THEN Head(steps)
    ELSE FirstError(Tail(steps))

\* os.environ.get(name): None when unset
EnvGet(env, name) == IF env[name] = "unset" THEN "None" ELSE env[name]
\* not value, for a value that is None or a string
Not(v) == v \in {"None", ""}

Contains(msg, fragment) == \E i \in 1..Len(msg) : msg[i] = fragment

\* ------------------------------------------------------ result envelopes
Success(report) == [status |-> "success", report |-> report]
Error(message) == [status |-> "error", error_message |-> message]
Return(envelope) == [returned |-> <<envelope>>, raised |-> ""]
Raise(exc) == [returned |-> << >>, raised |-> exc]
\* The function has neither returned nor raised: it waits for an HTTP response.
Pending == [returned |-> << >>, raised |-> ""]

\* ------------------------------------------------------------- requests
RequestException == {"ConnectionError", "HTTPError", "requests.JSONDecodeError"}

\* requests.get: raises on a connection failure
HttpGet(r) == IF r.net = "ok" THEN "ok" ELSE "ConnectionError"
\* response.raise_for_status()
RaiseForStatus(r) == IF r.http = "ok" THEN "ok" ELSE "HTTPError"
\* response.json(): requests.exceptions.JSONDecodeError, a RequestException
Json(r) == IF r.json THEN "ok" ELSE "requests.JSONDecodeError"

Request(url, q, key, lat, lng) ==
    [url |-> url, q |-> q, key |-> key, lat |-> lat, lng |-> lng]

\* ------------------------------------------------------ upstream answers
Cities == {"Paris", "Atlantis"}
KeyValues == {"unset", "", "k1"}

WeatherPayload(top, main, temp, weather, w0, desc) ==
    [top |-> top, main |-> main, temp |-> temp, weather |-> weather, w0 |-> w0,
     desc |-> desc]

WeatherMainShapes ==
    {<<m, Absent>> : m \in (Types \ {"obj"}) \cup {Absent}}
        \cup {<<"obj", t>> : t \in Types \cup {Absent}}

WeatherListShapes ==
    {<<w, Absent, Absent>> : w \in (Types \ {"list", "str"}) \cup {Absent}}
        \cup {<<"str", e, Absent>> : e \in {Absent, "str"}}
        \cup {<<"list", e, Absent>> : e \in (Types \ {"obj"}) \cup {Absent}}
        \cup {<<"list", "obj", d>> : d \in Types \cup {Absent}}

WeatherPayloads ==
    {WeatherPayload(t, Absent, Absent, Absent, Absent, Absent) : t \in Types \ {"obj"}}
        \cup {WeatherPayload("obj", m[1], m[2], w[1], w[2], w[3]) :
                m \in WeatherMainShapes, w \in WeatherListShapes}

GeoPayload(top, truthy, first, lat, lon) ==
    [top |-> top, truthy |-> truthy, first |-> first, lat |-> lat, lon |-> lon]

GeoPayloads ==
    {GeoPayload(t, FALSE, Absent, Absent, Absent) : t \in Types}
        \cup {GeoPayload(t, TRUE, Absent, Absent, Absent) : t \in {"obj", "num", "bool"}}
        \cup {GeoPayload("str", TRUE, "str", Absent, Absent)}
        \cup {GeoPayload("list", TRUE, e, Absent, Absent) : e \in Types \ {"obj"}}
        \cup {GeoPayload("list", TRUE, "obj", la, lo) :
                la \in {Absent, "48.85"}, lo \in {Absent, "2.35"}}

TzPayload(top, status, message, formatted, zoneName) ==
    [top |-> top, status |-> status, message |-> message, formatted |-> formatted,
     zoneName |-> zoneName]

TzPayloads ==
    {TzPayload(t, Absent, Absent, Absent, Absent) : t \in Types \ {"obj"}}
        \cup {TzPayload("obj", s, m, f, z) :
                s \in {Absent, "OK", "FAILED"}, m \in {Absent, "Invalid API key."},
                f \in {Absent, "2024-01-01 12:00:00"}, z \in {Absent, "Europe/Paris"}}

\* The responses an upstream can give: a connection failure, an HTTP error status,
\* a body that is not JSON, or a JSON body of any shape.
Responses(payloads) ==
    LET any == CHOOSE p \in payloads : TRUE IN
    {[net |-> "fail", http |-> "error", json |-> FALSE, payload |-> any],
     [net |-> "ok", http |-> "error", json |-> FALSE, payload |-> any],
     [net |-> "ok", http |-> "ok", json |-> FALSE, payload |-> any]}
        \cup {[net |-> "ok", http |-> "ok", json |-> TRUE, payload |-> p] : p \in payloads}

Delivered(r) == r.net = "ok" /\ r.http = "ok" /\ r.json

\* ---------------------------------------------------------- get_weather
\* Lines 16-30: the key check, then the request parameters.
get_weather_call(c, env) ==
    LET api_key == EnvGet(env, "WEATHER_API_KEY") IN
    IF Not(api_key)
    THEN [out |-> Return(Error(<<"Weather ", "API key not found",
                                 " in environment variables.">>)),
          req |-> << >>]
    ELSE [out |-> Pending, req |-> <<Request("weather", c, api_key, "", "")>>]

\* Lines 33-41: the statements of the try block, in order.
get_weather_try(r) ==
    LET data == r.payload IN
    FirstError(<<HttpGet(r), RaiseForStatus(r), Json(r),
                 GetItem(data.top, "name", data.main # Absent),
                 GetItem(data.main, "name", data.temp # Absent),
                 Arith(data.temp),
                 GetItem(data.top, "name", data.weather # Absent),
                 GetItem(data.weather, "index", data.w0 # Absent),
                 GetItem(data.w0, "name", data.desc # Absent)>>)

\* get_weather_handle with a success envelope that also carries an error_message.
get_weather_handle_mut(c, e) ==
    IF e = "ok"
    THEN Return([status |-> "success", report |-> <<"The weather in ", c>>,
                 error_message |-> << >>])
    ELSE IF e \in RequestException
    THEN Return(Error(<<"Error fetching weather for '", c, "': ", e>>))
    ELSE IF e \in {"KeyError", "IndexError"}
    THEN Return(Error(<<"Error parsing weather data for '", c, "': ", e>>))
    ELSE Raise(e)

\* Lines 43-59: the return of the try block and the two except clauses.
get_weather_handle(c, e) ==
    IF e = "ok"
    THEN Return(Success(<<"The weather in ", c, " is ", "weather_desc",
                          " with a temperature of ", "temp_c", " degrees Celsius (",
                          "temp_f", " degrees Fahrenheit).">>))
    ELSE IF e \in RequestException
    THEN Return(Error(<<"Error fetching weather for '", c, "': ", e>>))
    ELSE IF e \in {"KeyError", "IndexError"}
    THEN Return(Error(<<"Error parsing weather data for '", c, "': ", e>>))
    ELSE Raise(e)

\* ----------------------------------------------------- get_current_time
\* Lines 141-150: the two except clauses.
get_current_time_handle(c, e) ==
    IF e \in RequestException
    THEN Return(Error(<<"Error fetching time data for '", c, "': ", e>>))
    ELSE IF e \in {"KeyError", "IndexError"}
    THEN Return(Error(<<"Error parsing time data for '", c, "': ", e>>))
    ELSE Raise(e)

\* get_current_time_call without the check of WEATHER_API_KEY.
get_current_time_call_mut(c, env) ==
    LET api_key == EnvGet(env, "TIMEZONE_API_KEY")
        weather_api_key == EnvGet(env, "WEATHER_API_KEY")
    IN  IF Not(api_key)
        THEN [out |-> Return(Error(<<"Timezone ", "API key not found",
                                     " in environment variables.">>)),
              req |-> << >>]
        ELSE [out |-> Pending,
              req |-> <<Request("geocode", c, weather_api_key, "", "")>>]

\* Lines 72-102: the two key checks, then the geocoding request parameters.
get_current_time_call(c, env) ==
    LET api_key == EnvGet(env, "TIMEZONE_API_KEY")
        weather_api_key == EnvGet(env, "WEATHER_API_KEY")
    IN  IF Not(api_key)
        THEN [out |-> Return(Error(<<"Timezone ", "API key not found",
                                     " in environment variables.">>)),
              req |-> << >>]
        ELSE IF Not(weather_api_key)
        THEN [out |-> Return(Error(<<"Weather ", "API key not found",
                                     " in environment variables (needed for geocoding).">>)),
              req |-> << >>]
        ELSE [out |-> Pending,
              req |-> <<Request("geocode", c, weather_api_key, "", "")>>]

\* Lines 104-107: the geocoding response is received and decoded.
geocode_fetch(r) == FirstError(<<HttpGet(r), RaiseForStatus(r), Json(r)>>)

\* Lines 115-116: lat and lon of the first result.
geocode_extract(geocode_data) ==
    FirstError(<<GetItem(geocode_data.top, "index", geocode_data.first # Absent),
                 GetItem(geocode_data.first, "name", geocode_data.lat # Absent),
                 GetItem(geocode_data.top, "index", geocode_data.first # Absent),
                 GetItem(geocode_data.first, "name", geocode_data.lon # Absent)>>)

\* get_current_time_geocode going on to the timezone request on an empty result.
get_current_time_geocode_mut(c, env, r) ==
    LET geocode_data == r.payload
        e1 == geocode_fetch(r)
        e2 == geocode_extract(geocode_data)
    IN  IF e1 # "ok" THEN [out |-> get_current_time_handle(c, e1), req |-> << >>]
        ELSE IF ~geocode_data.truthy
        THEN [out |-> Pending,
              req |-> <<Request("timezone", "", EnvGet(env, "TIMEZONE_API_KEY"),
                                geocode_data.lat, geocode_data.lon)>>]
        ELSE IF e2 # "ok" THEN [out |-> get_current_time_handle(c, e2), req |-> << >>]
        ELSE [out |-> Pending,
              req |-> <<Request("timezone", "", EnvGet(env, "TIMEZONE_API_KEY"),
                                geocode_data.lat, geocode_data.lon)>>]

\* Lines 104-123: from the geocoding response to the timezone request.
get_current_time_geocode(c, env, r) ==
    LET geocode_data == r.payload
        e1 == geocode_fetch(r)
        e2 == geocode_extract(geocode_data)
    IN  IF e1 # "ok" THEN [out |-> get_current_time_handle(c, e1), req |-> << >>]
        ELSE IF ~geocode_data.truthy
        THEN [out |-> Return(Error(<<"Could not find location data for '", c, "'.">>)),
              req |-> << >>]
        ELSE IF e2 # "ok" THEN [out |-> get_current_time_handle(c, e2), req |-> << >>]
        ELSE [out |-> Pending,
              req |-> <<Request("timezone", "", EnvGet(env, "TIMEZONE_API_KEY"),
                                geocode_data.lat, geocode_data.lon)>>]

\* timezone_data.get('message', 'Unknown error')
TzMessage(timezone_data) ==
    IF timezone_data.message = Absent THEN "Unknown error" ELSE timezone_data.message

\* get_current_time_timezone without the test of the payload's status.
get_current_time_timezone_mut(c, r) ==
    LET timezone_data == r.payload
        e1 == FirstError(<<HttpGet(r), RaiseForStatus(r), Json(r),
                           GetItem(timezone_data.top, "name", timezone_data.status # Absent)>>)
        e2 == FirstError(<<GetItem(timezone_data.top, "name", timezone_data.formatted # Absent),
                           GetItem(timezone_data.top, "name", timezone_data.zoneName # Absent)>>)
    IN  IF e1 # "ok" THEN get_current_time_handle(c, e1)
        ELSE IF e2 # "ok" THEN get_current_time_handle(c, e2)
        ELSE Return(Success(<<"The current time in ", c, " is ", timezone_data.formatted,
                              " (", timezone_data.zoneName, ")">>))

\* Lines 123-139: from the timezone response to the report.
get_current_time_timezone(c, r) ==
    LET timezone_data == r.payload
        e1 == FirstError(<<HttpGet(r), RaiseForStatus(r), Json(r),
                           GetItem(timezone_data.top, "name", timezone_data.status # Absent)>>)
        e2 == FirstError(<<GetItem(timezone_data.top, "name", timezone_data.formatted # Absent),
                           GetItem(timezone_data.top, "name", timezone_data.zoneName # Absent)>>)
    IN  IF e1 # "ok" THEN get_current_time_handle(c, e1)
        ELSE IF timezone_data.status # "OK"
        THEN Return(Error(<<"Error fetching timezone data: ", TzMessage(timezone_data)>>))
        ELSE IF e2 # "ok" THEN get_current_time_handle(c, e2)
        ELSE Return(Success(<<"The current time in ", c, " is ", timezone_data.formatted,
                              " (", timezone_data.zoneName, ")">>))

\* ------------------------------------------------------------- registry
\* The registry, the configuration and the agent class are imported by cli.py
\* (lines 10-12); they are modelled from their description: a catalog in
\* registration order, a key-value source, and an agent holding the Tools added.
ToolNames == {"get_weather", "get_current_time", "echo"}
Description(name) ==
    CASE name = "get_weather" -> "Current weather report for a city"
      [] name = "get_current_time" -> "Current time in a city"
      [] OTHER -> "Repeats its input"
Entry(name) == [name |-> name, function |-> <<"fn", name>>, description |-> Description(name)]

\* registry.list_tools(): the names, in registration order
ListTools(reg) == [i \in 1..Len(reg) |-> reg[i].name]
\* registry.get_tool(name): the entry's function and metadata
GetTool(reg, name) ==
    LET i == CHOOSE j \in 1..Len(reg) : reg[j].name = name IN
    [function |-> reg[i].function, metadata |-> [description |-> reg[i].description]]
\* registry.get_tool_descriptions(): name -> description, in registration order
GetToolDescriptions(reg) == [i \in 1..Len(reg) |-> <<reg[i].name, reg[i].description>>]

\* Tool(name=..., function=..., description=...)
Tool(name, function, description) ==
    [name |-> name, function |-> function, description |-> description]
\* MultiToolAgent(): an agent without tools
MultiToolAgent == << >>
\* agent.add_tool(tool)
AddTool(tools, tool) == Append(tools, tool)

\* config.get(key, default) for the key LOG_LEVEL
ConfigGet(level, default) == IF level = Absent THEN default ELSE level

\* agent.run(task): a dispatch outcome with the keys main prints
AgentRun(task, tools, status) ==
    [task |-> task, status |-> status,
     tools_used |-> [i \in 1..Len(tools) |-> tools[i].name],
     result |-> <<"answer to ", task>>]
\* How main sees a run end (lines 163-176): a result whose status is printed, an
\* Exception, or KeyboardInterrupt.
RunOutcomes == {"success", "error", "Exception", "KeyboardInterrupt"}
Raises(outcome) == outcome \in {"Exception", "KeyboardInterrupt"}

\* ---------------------------------------------------------------- cli.py
\* str.upper() and str.lower() on the strings of the model
Upper(str) ==
    CASE str = "error" -> "ERROR"
      [] str = "bogus" -> "BOGUS"
      [] OTHER -> str
Lower(str) ==
    CASE str = "QUIT" -> "quit"
      [] str = "Tools" -> "tools"
      [] str = "Exit now" -> "exit now"
      [] OTHER -> str

\* getattr(logging, name, None), -1 standing for what is no int
LoggingAttr(name) ==
    CASE name = "CRITICAL" -> 50
      [] name = "FATAL" -> 50
      [] name = "ERROR" -> 40
      [] name = "WARNING" -> 30
      [] name = "WARN" -> 30
      [] name = "INFO" -> 20
      [] name = "DEBUG" -> 10
      [] name = "NOTSET" -> 0
      [] OTHER -> -1

\* Lines 21-31: the level setup_logging hands to logging.basicConfig.
setup_logging(log_level, config_level) ==
    LET level == IF log_level = "None" THEN ConfigGet(config_level, "INFO") ELSE log_level
        numeric_level == LoggingAttr(Upper(level))
    IN  IF numeric_level = -1 THEN LoggingAttr("INFO") ELSE numeric_level

\* Lines 66-108: the namespace argparse builds from the command line.
parse_args(cmdline) ==
    [task |-> cmdline.task,
     config |-> cmdline.config,
     log_level |-> IF cmdline.log_level = Absent THEN "INFO" ELSE cmdline.log_level,
     list_tools |-> cmdline.list_tools,
     output |-> cmdline.output]

RECURSIVE create_agent_loop(_, _, _)
\* Lines 43-55: one Tool per listed name, added in turn.
create_agent_loop(names, reg, agent) ==
    IF names = << >> THEN agent
    ELSE LET tool_name == Head(names)
             tool_info == GetTool(reg, tool_name)
             tool == Tool(tool_name, tool_info.function, tool_info.metadata.description)
         IN  create_agent_loop(Tail(names), reg, AddTool(agent, tool))

\* create_agent skipping the first listed name.
create_agent_mut(reg) ==
    IF reg = << >> THEN MultiToolAgent
    ELSE create_agent_loop(Tail(ListTools(reg)), reg, MultiToolAgent)

\* Lines 40-57
create_agent(reg) == create_agent_loop(ListTools(reg), reg, MultiToolAgent)

\* Lines 124-127 and 157-160: the listing of the registry.
print_tools(reg) ==
    LET tool_descriptions == GetToolDescriptions(reg) IN
    <<<<"Available tools:">>>>
        \o [i \in 1..Len(tool_descriptions) |->
              <<"  - ", tool_descriptions[i][1], ": ", tool_descriptions[i][2]>>]

\* Lines 138-144 and 166-171: the result as printed.
print_result(output, result, with_task) ==
    IF output = "json"
    THEN <<<<"{task: ", result.task, ", status: ", result.status, ", tools_used: [">>
             \o result.tools_used \o <<"], result: ">> \o result.result \o <<"}">>>>
    ELSE (IF with_task THEN <<<<"Task: ", result.task>>>> ELSE << >>)
           \o <<<<"Status: ", result.status>>,
                <<"Tools used: ">>
                    \o (IF result.tools_used # << >> THEN result.tools_used ELSE <<"None">>),
                <<"Result: ">> \o result.result>>

\* if value: for an argument that is None or a string
Truthy(v) == v \notin {"None", ""}

\* main_branch testing args.task before args.list_tools.
main_branch_mut(args) ==
    IF Truthy(args.task) THEN "task"
    ELSE IF args.list_tools THEN "list_tools"
    ELSE "interactive"

\* Lines 123, 134 and 145: which way main goes.
main_branch(args) ==
    IF args.list_tools THEN "list_tools"
    ELSE IF Truthy(args.task) THEN "task"
    ELSE "interactive"

\* is_exit comparing the line as typed, without lower().
is_exit_mut(task) == task \in {"exit", "quit"}

\* Line 154
is_exit(task) == Lower(task) \in {"exit", "quit"}
\* Line 156
is_tools(task) == Lower(task) = "tools"

Banner == <<<<"Multi Tool Agent Interactive Mode">>, <<"Type 'exit' or 'quit' to exit">>,
            <<"Type 'tools' to list available tools">>>>

\* ------------------------------------------------- the command line as a machine
Tasks == {"None", "What's the weather in Paris?"}
Lines == {"exit", "QUIT", "Tools", "Exit now"}
InputEvents ==
    {[line |-> l, input_exc |-> ""] : l \in Lines}
        \cup {[line |-> "", input_exc |-> e] : e \in {"EOFError", "KeyboardInterrupt"}}

RECURSIVE Registries(_)
\* The registries of n entries, their names distinct.
Registries(n) ==
    IF n = 0 THEN {<< >>}
    ELSE LET shorter == Registries(n - 1)
             longer == {e \in shorter \X ToolNames :
                          /\ Len(e[1]) = n - 1
                          /\ \A i \in 1..Len(e[1]) : e[1][i].name # e[2]}
         IN  shorter \cup {Append(e[1], Entry(e[2])) : e \in longer}

\* ------------------------------------------------- the tools as a machine
NoArgv == [task |-> "None", log_level |-> Absent, config |-> "None", list_tools |-> FALSE,
           output |-> "text"]
NoEvent == [line |-> "", input_exc |-> "", run |-> ""]

\* The command line stays unstarted while the tool functions are exercised.
CliIdle ==
    /\ argv = NoArgv
    /\ config_default = Absent
    /\ config_file = Absent
    /\ main_config = "unbound"
    /\ registry = << >>
    /\ agent_created = FALSE
    /\ agent_tools = << >>
    /\ logging_level = -1
    /\ cli_pc = "start"
    /\ stdout = << >>
    /\ runs = << >>
    /\ last_event = NoEvent
    /\ lines_read = 0

AgentIdle ==
    /\ fn = "none"
    /\ city = ""
    /\ pc = "idle"
    /\ http_log = << >>
    /\ http_responses = << >>
    /\ returned = << >>
    /\ raised = ""
    /\ calls = 0

Init ==
    /\ environ \in [{"WEATHER_API_KEY", "TIMEZONE_API_KEY"} -> KeyValues]
    /\ AgentIdle
    /\ CliIdle

\* What an invocation step leaves behind: the outcome, and the request it issued.
Step(step, waiting) ==
    /\ returned' = step.out.returned
    /\ raised' = step.out.raised
    /\ http_log' = http_log \o step.req
    /\ pc' = IF step.req # << >> THEN waiting ELSE "done"

CallGetWeather(c) ==
    /\ pc = "idle"
    /\ calls < MaxCalls
    /\ calls' = calls + 1
    /\ fn' = "get_weather"
    /\ city' = c
    /\ Step(get_weather_call(c, environ), "weather_req")
    /\ UNCHANGED <<environ, http_responses, cli_vars>>

WeatherResponse(r) ==
    /\ pc = "weather_req"
    /\ http_responses' = Append(http_responses, r)
    /\ Step([out |-> get_weather_handle(city, get_weather_try(r)),
             req |-> << >>], "done")
    /\ UNCHANGED <<environ, fn, city, calls, cli_vars>>

CallGetCurrentTime(c) ==
    /\ pc = "idle"
    /\ calls < MaxCalls
    /\ calls' = calls + 1
    /\ fn' = "get_current_time"
    /\ city' = c
    /\ Step(get_current_time_call(c, environ), "geocode_req")
    /\ UNCHANGED <<environ, http_responses, cli_vars>>

GeocodeResponse(r) ==
    /\ pc = "geocode_req"
    /\ http_responses' = Append(http_responses, r)
    /\ Step(get_current_time_geocode(city, environ, r), "timezone_req")
    /\ UNCHANGED <<environ, fn, city, calls, cli_vars>>

TimezoneResponse(r) ==
    /\ pc = "timezone_req"
    /\ http_responses' = Append(http_responses, r)
    /\ Step([out |-> get_current_time_timezone(city, r), req |-> << >>],
            "done")
    /\ UNCHANGED <<environ, fn, city, calls, cli_vars>>

\* The caller takes the result (or the exception); the next invocation starts afresh.
Finish ==
    /\ pc = "done"
    /\ calls < MaxCalls
    /\ fn' = "none"
    /\ city' = ""
    /\ pc' = "idle"
    /\ http_log' = << >>
    /\ http_responses' = << >>
    /\ returned' = << >>
    /\ raised' = ""
    /\ UNCHANGED <<environ, calls, cli_vars>>

Next ==
    \/ \E c \in Cities : CallGetWeather(c)
    \/ \E r \in Responses(WeatherPayloads) : WeatherResponse(r)
    \/ \E c \in Cities : CallGetCurrentTime(c)
    \/ \E r \in Responses(GeoPayloads) : GeocodeResponse(r)
    \/ \E r \in Responses(TzPayloads) : TimezoneResponse(r)
    \/ Finish

Spec == Init /\ [][Next]_vars

\* ---- cli.py ----
\* --log-level is absent or one of its choices; --config absent or a path.
CliInit ==
    /\ argv \in [task : Tasks, log_level : {Absent, "DEBUG"}, config : {"None", "custom.cfg"},
                 list_tools : BOOLEAN, output : {"text", "json"}]
    /\ config_default \in {Absent, "DEBUG", "bogus"}
    /\ config_file \in (IF argv.config = "None" THEN {Absent} ELSE {Absent, "error"})
    /\ registry \in Registries(MaxTools)
    /\ main_config = "unbound"
    /\ agent_created = FALSE
    /\ agent_tools = << >>
    /\ logging_level = -1
    /\ cli_pc = "start"
    /\ stdout = << >>
    /\ runs = << >>
    /\ last_event = NoEvent
    /\ lines_read = 0
    /\ environ = [name \in {"WEATHER_API_KEY", "TIMEZONE_API_KEY"} |-> "k1"]
    /\ AgentIdle

\* Lines 112-131 and 147-149: main up to the point where it runs the task or reads
\* the first line.
MainStart ==
    /\ cli_pc = "start"
    /\ LET args == parse_args(argv)
           branch == main_branch(args)
       IN  /\ logging_level' = setup_logging(args.log_level, config_default)
           /\ main_config' = IF Truthy(args.config) THEN "file" ELSE "unbound"
           /\ IF branch = "list_tools"
              THEN /\ stdout' = stdout \o print_tools(registry)
                   /\ cli_pc' = "exited"
                   /\ UNCHANGED <<agent_created, agent_tools>>
              ELSE /\ agent_created' = TRUE
                   /\ agent_tools' = create_agent(registry)
                   /\ stdout' = IF branch = "task" THEN stdout ELSE stdout \o Banner
                   /\ cli_pc' = IF branch = "task" THEN "running" ELSE "repl"
    /\ UNCHANGED <<argv, config_default, config_file, registry, runs, last_event,
                   lines_read, agent_vars>>

\* Lines 135-144: the task of the command line is run and its result printed.
OneShot(outcome) ==
    /\ cli_pc = "running"
    /\ LET args == parse_args(argv) IN
         /\ runs' = Append(runs, args.task)
         /\ last_event' = [line |-> args.task, input_exc |-> "", run |-> outcome]
         /\ IF Raises(outcome)
            THEN cli_pc' = "crashed" /\ UNCHANGED stdout
            ELSE /\ cli_pc' = "exited"
                 /\ stdout' = stdout
                       \o print_result(args.output, AgentRun(args.task, agent_tools, outcome),
                                       TRUE)
    /\ UNCHANGED <<argv, config_default, config_file, main_config, registry, agent_created,
                   agent_tools, logging_level, lines_read, agent_vars>>

\* Lines 172-176: what the loop does with an exception raised in its body.
repl_except(exc) ==
    IF exc = "KeyboardInterrupt"
    THEN [pc |-> "exited", out |-> <<<<"Exiting...">>>>]
    ELSE [pc |-> "repl", out |-> <<<<"Error: ", exc>>>>]

\* Lines 152-176: one iteration of the loop, from the prompt to the next prompt.
Repl(input, outcome) ==
    /\ cli_pc = "repl"
    /\ lines_read < MaxLines
    /\ lines_read' = lines_read + 1
    /\ LET args == parse_args(argv)
           task == input.line
           ran == input.input_exc = "" /\ ~is_exit(task) /\ ~is_tools(task)
           exc == IF input.input_exc # "" THEN input.input_exc
                  ELSE IF ran /\ Raises(outcome) THEN outcome
                  ELSE ""
       IN  /\ runs' = IF ran THEN Append(runs, task) ELSE runs
           /\ last_event' = [line |-> task, input_exc |-> input.input_exc,
                             run |-> IF ran THEN outcome ELSE ""]
           /\ IF exc # ""
              THEN /\ cli_pc' = repl_except(exc).pc
                   /\ stdout' = stdout \o repl_except(exc).out
              ELSE IF is_exit(task)
              THEN cli_pc' = "exited" /\ UNCHANGED stdout
              ELSE IF is_tools(task)
              THEN cli_pc' = "repl" /\ stdout' = stdout \o print_tools(registry)
              ELSE /\ cli_pc' = "repl"
                   /\ stdout' = stdout
                         \o print_result(args.output, AgentRun(task, agent_tools, outcome),
                                         FALSE)
    /\ UNCHANGED <<argv, config_default, config_file, main_config, registry, agent_created,
                   agent_tools, logging_level, agent_vars>>

CliNext ==
    \/ MainStart
    \/ \E outcome \in RunOutcomes : OneShot(outcome)
    \/ \E input \in InputEvents, outcome \in RunOutcomes : Repl(input, outcome)

CliSpec == CliInit /\ [][CliNext]_vars

\* ------------------------------------------- properties of the tool functions
EnvelopeOK(e) ==
    /\ DOMAIN e \subseteq {"status", "report", "error_message"}
    /\ "status" \in DOMAIN e
    /\ e.status \in {"success", "error"}
    /\ ("report" \in DOMAIN e) <=> (e.status = "success")
    /\ ("error_message" \in DOMAIN e) <=> (e.status = "error")

KeyMissing(name) == Not(EnvGet(environ, name))

ReturnedError == raised = "" /\ Len(returned) = 1 /\ returned[1].status = "error"
ReturnedSuccess == raised = "" /\ Len(returned) = 1 /\ returned[1].status = "success"

\* C1: every value get_weather or get_current_time returns is an envelope whose
\* status is 'success' or 'error', with report present exactly when the status is
\* 'success' and error_message present exactly when it is 'error'.
C1_EnvelopeShape == \A i \in 1..Len(returned) : EnvelopeOK(returned[i])

C1_Witness == fn = "get_weather" /\ pc = "done" /\ ReturnedSuccess

\* C2: whatever the upstream answers (connection failure, HTTP error status, a body
\* that is not JSON, a missing key, a value of the wrong type), the tool function
\* returns an error envelope and no exception escapes it.
C2_NeverRaises == raised = ""

\* C3: with a required API key unset or empty the tool returns status 'error' with
\* a message containing 'API key not found' and issues no HTTP request; get_weather
\* requires WEATHER_API_KEY, get_current_time both keys.
C3_MissingKey ==
    (\/ fn = "get_weather" /\ KeyMissing("WEATHER_API_KEY")
     \/ fn = "get_current_time"
            /\ (KeyMissing("TIMEZONE_API_KEY") \/ KeyMissing("WEATHER_API_KEY")))
    => /\ pc = "done"
       /\ http_log = << >>
       /\ ReturnedError
       /\ Contains(returned[1].error_message, "API key not found")

C3_Witness ==
    /\ fn = "get_current_time"
    /\ ~KeyMissing("TIMEZONE_API_KEY")
    /\ environ["WEATHER_API_KEY"] = ""
    /\ pc = "done"
    /\ ReturnedError

Count(log, url) == Cardinality({i \in 1..Len(log) : log[i].url = url})

\* C6: one get_current_time invocation issues at most one geocoding request and at
\* most one timezone request, the geocoding request first, and the timezone request
\* only after a geocoding response that was delivered and non-empty; an empty
\* geocoding result ends the invocation with status 'error' and no timezone
\* request. One get_weather invocation issues at most one request.
C6_RequestChain ==
    /\ fn = "get_weather" =>
          /\ Len(http_log) <= 1
          /\ \A i \in 1..Len(http_log) : http_log[i].url = "weather"
    /\ fn = "get_current_time" =>
          /\ Count(http_log, "geocode") <= 1
          /\ Count(http_log, "timezone") <= 1
          /\ Count(http_log, "weather") = 0
          /\ Len(http_log) >= 1 => http_log[1].url = "geocode"
          /\ Len(http_log) >= 2 =>
                /\ http_log[2].url = "timezone"
                /\ Len(http_responses) >= 1
                /\ Delivered(http_responses[1])
                /\ http_responses[1].payload.truthy
          /\ (/\ Len(http_responses) >= 1
              /\ Delivered(http_responses[1])
              /\ ~http_responses[1].payload.truthy)
             => pc = "done" /\ Len(http_log) = 1 /\ ReturnedError
    /\ fn = "none" => http_log = << >>

C6_Witness ==
    /\ fn = "get_current_time"
    /\ pc = "done"
    /\ Len(http_log) = 2
    /\ http_log[2].lat = "48.85"

\* C9: a tool returns status 'success' only when its whole upstream chain
\* succeeded; a timezone payload whose status is not 'OK' yields status 'error'
\* carrying the payload's message, or 'Unknown error' when it has none.
C9_SuccessOnlyOnFullChain ==
    /\ (fn = "get_weather" /\ ReturnedSuccess) =>
          /\ Len(http_responses) = 1
          /\ Delivered(http_responses[1])
          /\ LET data == http_responses[1].payload IN
                /\ data.top = "obj" /\ data.main = "obj" /\ data.temp # Absent
                /\ data.weather = "list" /\ data.w0 = "obj" /\ data.desc # Absent
    /\ (fn = "get_current_time" /\ ReturnedSuccess) =>
          /\ ~KeyMissing("TIMEZONE_API_KEY")
          /\ ~KeyMissing("WEATHER_API_KEY")
          /\ Len(http_responses) = 2
          /\ Delivered(http_responses[1])
          /\ LET geocode_data == http_responses[1].payload IN
                /\ geocode_data.truthy
                /\ geocode_data.top = "list" /\ geocode_data.first = "obj"
                /\ geocode_data.lat # Absent /\ geocode_data.lon # Absent
          /\ Delivered(http_responses[2])
          /\ LET timezone_data == http_responses[2].payload IN
                /\ timezone_data.top = "obj" /\ timezone_data.status = "OK"
                /\ timezone_data.formatted # Absent /\ timezone_data.zoneName # Absent
    /\ (/\ fn = "get_current_time"
        /\ Len(http_responses) = 2
        /\ Delivered(http_responses[2])
        /\ http_responses[2].payload.top = "obj"
        /\ http_responses[2].payload.status \notin {Absent, "OK"})
       => /\ ReturnedError
          /\ returned[1].error_message =
                <<"Error fetching timezone data: ",
                  IF http_responses[2].payload.message = Absent
                  THEN "Unknown error"
                  ELSE http_responses[2].payload.message>>

C9_Witness ==
    /\ fn = "get_current_time"
    /\ pc = "done"
    /\ ReturnedSuccess
    /\ Len(http_log) = 2

\* ------------------------------------------- properties of the command line
\* C4: when agent.run raises, in one-shot mode as in interactive mode, main reports
\* the failure as output and does not end with an uncaught exception.
C4_RunFailureReported ==
    Raises(last_event.run) =>
        /\ cli_pc # "crashed"
        /\ stdout # << >>
        /\ stdout[Len(stdout)] \in {<<"Error: ", last_event.run>>, <<"Exiting...">>}

ExitLine(ev) == ev.input_exc = "" /\ Lower(ev.line) \in {"exit", "quit"}
ToolsLine(ev) == ev.input_exc = "" /\ Lower(ev.line) = "tools"
Interrupted(ev) == ev.input_exc = "KeyboardInterrupt" \/ ev.run = "KeyboardInterrupt"

C7_ConfigLogLevel ==
    (cli_pc # "start" /\ argv.log_level = Absent) =>
        LET level == IF argv.config # "None" /\ config_file # Absent
                     THEN config_file ELSE config_default
            numeric_level == IF level = Absent THEN -1 ELSE LoggingAttr(Upper(level))
        IN  logging_level = IF numeric_level = -1 THEN LoggingAttr("INFO") ELSE numeric_level

\* C8: create_agent gives the agent exactly one Tool per name of
\* registry.list_tools(), in that order, each with the registry's name, function
\* and description, and leaves the registry as it was.
C8_AgentMirrorsRegistry ==
    /\ [](agent_created =>
            /\ Len(agent_tools) = Len(registry)
            /\ \A i \in 1..Len(agent_tools) :
                  /\ agent_tools[i].name = ListTools(registry)[i]
                  /\ agent_tools[i].function = registry[i].function
                  /\ agent_tools[i].description = registry[i].description
                  /\ DOMAIN agent_tools[i] = {"name", "function", "description"})
    /\ [][registry' = registry]_vars

C8_Witness ==
    /\ agent_created
    /\ Len(agent_tools) = 2
    /\ agent_tools[1].name = "get_current_time"

\* C10: with --list-tools main prints the registry's listing and returns: no agent
\* is created, no task is run and the REPL is not entered, even when a task is
\* given too; the registry is left as it was.
C10_ListToolsOnly ==
    /\ []((argv.list_tools /\ cli_pc # "start") =>
            /\ cli_pc = "exited"
            /\ stdout = <<<<"Available tools:">>>>
                  \o [i \in 1..Len(registry) |->
                        <<"  - ", registry[i].name, ": ", registry[i].description>>]
            /\ ~agent_created
            /\ agent_tools = << >>
            /\ runs = << >>
            /\ lines_read = 0)
    /\ [][argv.list_tools => registry' = registry]_vars

C10_Witness ==
    /\ argv.list_tools
    /\ argv.task # "None"
    /\ cli_pc = "exited"
    /\ Len(registry) = 2

====
